---- MODULE Spec2Model ----
(***************************************************************************)
(* Freelance workflow engine (src/Project.cpp): the milestone state        *)
(* machine (FixedPriceMilestone, HourlyMilestone), the payment strategy    *)
(* (Escrow, Direct), the receipt Logger and the orchestrator               *)
(* Project::executeProjectWorkflow.                                        *)
(*                                                                         *)
(* C++ doubles (amounts, hours, rates) are modelled by integers.  Objects  *)
(* are records, a null pointer is the record NullPtr.  The milestone can   *)
(* be driven directly through its public methods while no workflow runs,   *)
(* and by the workflow, which is modelled statement by statement (pc).     *)
(***************************************************************************)
EXTENDS Integers, Sequences, FiniteSets, TLC

\* ------------------------------------------------------------------ bounds
MaxAmount == 2
MaxRate == 2
MaxHours == 2
MaxRuns == 2

\* -------------------------------------------------------- program constants
DemoAmount == 2500
StreamPrecision == 6
EscrowPaymentType == "Escrow"
DirectPaymentType == "Direct"
LogFileName == "payment_receipts.txt"
BuildTimestamp == "__DATE__ __TIME__"

InvalidHoursException == "InvalidHoursException"
NullPointerException == "NullPointerException"
PaymentFailureException == "PaymentFailureException"
RuntimeError == "runtime_error"
NoException == "none"

\* what() of each exception, as reported on cerr by the catch clause
What(e) ==
    CASE e = InvalidHoursException -> "Invalid hours worked: cannot be negative or zero"
      [] e = NullPointerException -> "Null pointer access attempted"
      [] e = PaymentFailureException -> "Payment processing failed: amount is zero or negative"
      [] OTHER -> "Unable to open log file"

\* ------------------------------------------------------------ input domains
\* an amount with more significant digits than the stream prints
LargeAmount == 10 ^ StreamPrecision + 1
FixedAmounts == (-1 .. MaxAmount) \cup {DemoAmount, LargeAmount}
Rates == -1 .. MaxRate
HourArgs == -1 .. MaxHours
PaymentAmounts == {0, DemoAmount}
Titles == {"Website", "Test Milestone"}
DescriptionOf(title) == IF title = "Website" THEN "Full stack" ELSE "Testing exceptions"

\* ------------------------------------------------------------------ objects
NullPtr == [null |-> TRUE]

Client == [class |-> "Client"]
Freelancer == [class |-> "Freelancer"]

Escrow(amt) == [class |-> "Escrow", amount |-> amt]
Direct(amt) == [class |-> "Direct", amount |-> amt]

\* virtual Payment::getPaymentType
getPaymentType(p) ==
    IF p.class = "Escrow" THEN EscrowPaymentType ELSE DirectPaymentType

getAmount(p) == p.amount

\* mutant: the payment clears its amount once it is processed
processPayment_Settles(p) == [p EXCEPT !.amount = 0]

\* virtual Payment::processPayment: prints a notice, the object is as it was
processPayment(p) == p

\* the notice processPayment prints: the mechanism and the Payment's own amount
Notice(p) == [class |-> p.class, amount |-> getAmount(p)]

FixedPriceMilestone(title, desc, payment, amount) ==
    [class |-> "FixedPriceMilestone", title |-> title, description |-> desc,
     isCompleted |-> FALSE, paymentMethod |-> payment, fixedAmount |-> amount]

HourlyMilestone(title, desc, payment, rate) ==
    [class |-> "HourlyMilestone", title |-> title, description |-> desc,
     isCompleted |-> FALSE, paymentMethod |-> payment,
     hoursWorked |-> 0, hourlyRate |-> rate]

Logger(fileName) == [logFileName |-> fileName]

getTitle(m) == m.title
getIsCompleted(m) == m.isCompleted

\* ------------------------------------------------------- milestone methods
\* mutant: the amount is owed whether or not the milestone is completed
FixedPriceMilestone_calculatePayment_NoGuard(m) == m.fixedAmount

FixedPriceMilestone_calculatePayment(m) ==
    IF m.isCompleted THEN m.fixedAmount ELSE 0

\* mutant: the product is returned whether or not the milestone is completed
HourlyMilestone_calculatePayment_NoGuard(m) == m.hoursWorked * m.hourlyRate

\* mutant: the hours are left out of the product
HourlyMilestone_calculatePayment_RateOnly(m) ==
    IF m.isCompleted THEN m.hourlyRate ELSE 0

HourlyMilestone_calculatePayment(m) ==
    IF m.isCompleted THEN m.hoursWorked * m.hourlyRate ELSE 0

\* virtual Milestone::calculatePayment
calculatePayment(m) ==
    IF m.class = "FixedPriceMilestone"
    THEN FixedPriceMilestone_calculatePayment(m)
    ELSE HourlyMilestone_calculatePayment(m)

\* mutant: a double-completion guard
FixedPriceMilestone_complete_Guarded(m) ==
    IF m.isCompleted
    THEN [ms |-> m, threw |-> RuntimeError]
    ELSE [ms |-> [m EXCEPT !.isCompleted = TRUE], threw |-> NoException]

\* mutant: the amount is validated, and a milestone that fails it is not completed
FixedPriceMilestone_complete_Validating(m) ==
    IF m.fixedAmount <= 0
    THEN [ms |-> m, threw |-> NoException]
    ELSE [ms |-> [m EXCEPT !.isCompleted = TRUE], threw |-> NoException]

\* A method that may throw yields the object after the call and what it threw.
FixedPriceMilestone_complete(m) ==
    [ms |-> [m EXCEPT !.isCompleted = TRUE], threw |-> NoException]

\* mutant: a failed completion marks the milestone as not completed
HourlyMilestone_complete_ResetOnFailure(m) ==
    IF m.hoursWorked <= 0
    THEN [ms |-> [m EXCEPT !.isCompleted = FALSE], threw |-> InvalidHoursException]
    ELSE [ms |-> [m EXCEPT !.isCompleted = TRUE], threw |-> NoException]

HourlyMilestone_complete(m) ==
    IF m.hoursWorked <= 0
    THEN [ms |-> m, threw |-> InvalidHoursException]
    ELSE [ms |-> [m EXCEPT !.isCompleted = TRUE], threw |-> NoException]

\* virtual Milestone::complete
complete(m) ==
    IF m.class = "FixedPriceMilestone"
    THEN FixedPriceMilestone_complete(m)
    ELSE HourlyMilestone_complete(m)

\* mutant: any value is stored, nothing is rejected
setHoursWorked_NoCheck(m, hours) ==
    [ms |-> [m EXCEPT !.hoursWorked = hours], threw |-> NoException]

\* mutant: the value is stored before it is validated
setHoursWorked_StoreFirst(m, hours) ==
    [ms |-> [m EXCEPT !.hoursWorked = hours],
     threw |-> IF hours < 0 THEN InvalidHoursException ELSE NoException]

setHoursWorked(m, hours) ==
    IF hours < 0
    THEN [ms |-> m, threw |-> InvalidHoursException]
    ELSE [ms |-> [m EXCEPT !.hoursWorked = hours], threw |-> NoException]

\* ------------------------------------------------------------------ logger
\* operator<<(double) at the stream's default precision: the value is
\* rounded to StreamPrecision significant digits (3 -> "3", 2500 -> "2500",
\* 1000001 -> "1e+06").  The result is the number the printed text denotes.
RECURSIVE ScaleOf(_)
ScaleOf(x) == IF x < 10 ^ StreamPrecision THEN 1 ELSE 10 * ScaleOf(x \div 10)

RoundTo(x, p) ==
    LET q == x \div p
        r == x % p
    IN  IF 2 * r > p \/ (2 * r = p /\ q % 2 = 1) THEN (q + 1) * p ELSE q * p

FormatAmount(x) ==
    IF x < 0 THEN 0 - RoundTo(0 - x, ScaleOf(0 - x)) ELSE RoundTo(x, ScaleOf(x))

Receipt(milestoneTitle, amount, paymentType) ==
    [milestone |-> milestoneTitle, amount |-> FormatAmount(amount),
     paymentType |-> paymentType, timestamp |-> BuildTimestamp]

\* mutant: the file is opened without ios::app and written from its start
WriteReceipt_Truncating(file, receipt) == <<receipt>>

\* ofstream logFile(logFileName, ios::app); logFile << ...; logFile.close()
WriteReceipt(file, receipt) == Append(file, receipt)

\* a receipt left in the file by an earlier execution of the program
PriorReceipt == Receipt("Website", DemoAmount, EscrowPaymentType)

\* ------------------------------------------------------------------- state
VARIABLES
    client, freelancer, milestone, logger,   \* Project's pointers
    logFile,          \* content of payment_receipts.txt: a sequence of receipts
    pc,               \* position inside executeProjectWorkflow, "idle" outside
    paymentAmount,    \* the local of executeProjectWorkflow
    exc,              \* the exception in flight to the catch clause
    trace,            \* statements the current (or last) run executed
    processed,        \* processPayment notices of the current (or last) run
    cerr,             \* what the catch clause reported in the current (or last) run
    caught,           \* times the catch clause ran in the current (or last) run
    outcome,          \* how the last run ended
    logAtStart,       \* logFile when the current (or last) run started
    runs,             \* number of runs started
    completeCalled,   \* complete() has been invoked on the milestone
    lastCall,         \* the last direct method call on the milestone
    logAtInit,        \* logFile when the program started
    successes,        \* number of runs that reached the success banner
    dpc,              \* position inside the driver (runCustomProject, runHardcodedDemos)
    input,            \* what the driver read from cin
    heap,             \* every object the driver allocates: none, live, deleted, deletedTwice
    owner,            \* who holds the pointer that is to delete each object
    locals,           \* the driver's pointer variables
    hm,               \* the milestone under construction, before a Project owns it
    logAtSetup        \* logFile when the driver called setHoursWorked

vars == <<client, freelancer, milestone, logger, logFile, pc, paymentAmount, exc,
          trace, processed, cerr, caught, outcome, logAtStart, runs,
          completeCalled, lastCall, logAtInit, successes,
          dpc, input, heap, owner, locals, hm, logAtSetup>>

project == <<client, freelancer, logger>>
driverVars == <<dpc, input, heap, owner, locals, hm, logAtSetup>>
\* what neither a milestone method nor the workflow touches
outer == <<logAtInit, driverVars>>
runVars == <<paymentAmount, exc, trace, processed, cerr, caught, outcome, logAtStart, runs>>

NoCall == [op |-> "none", arg |-> 0, ret |-> 0, label |-> "", threw |-> NoException]

Payments(amounts) ==
    {NullPtr} \cup {Escrow(a) : a \in amounts} \cup {Direct(a) : a \in amounts}

Milestones ==
    {NullPtr}
    \cup {FixedPriceMilestone(t, DescriptionOf(t), p, a) :
            t \in Titles, p \in Payments(PaymentAmounts), a \in FixedAmounts}
    \cup {HourlyMilestone(t, DescriptionOf(t), p, r) :
            t \in Titles, p \in Payments(PaymentAmounts), r \in Rates}

\* objects a driver allocates with new, by the variable that first holds them
ObjectIds ==
    {"client", "freelancer", "payment0", "payment", "milestone", "logger", "project",
     "client3", "freelancer3", "payment3", "milestone3", "logger3", "project3"}

NoInput == [mode |-> "none", typeChoice |-> 0, payChoice |-> 0, mAmount |-> 0,
            hours |-> 0, fRate |-> 0]
NoLocals == [payment |-> "nullptr", milestone |-> "nullptr", project |-> "nullptr"]

\* no driver is running: the Project was built by some other caller
NoDriver ==
    /\ dpc = "none"
    /\ input = NoInput
    /\ heap = [o \in ObjectIds |-> "none"]
    /\ owner = [o \in ObjectIds |-> "nobody"]
    /\ locals = NoLocals
    /\ hm = NullPtr
    /\ logAtSetup = <<>>

Init ==
    /\ client \in {NullPtr, Client}
    /\ freelancer \in {NullPtr, Freelancer}
    /\ milestone \in Milestones
    /\ logger \in {NullPtr, Logger(LogFileName)}
    /\ logFile \in {<<>>, <<PriorReceipt>>}
    /\ pc = "idle"
    /\ paymentAmount = 0
    /\ exc = NoException
    /\ trace = <<>>
    /\ processed = <<>>
    /\ cerr = <<>>
    /\ caught = 0
    /\ outcome = "none"
    /\ logAtStart = logFile
    /\ runs = 0
    /\ completeCalled = FALSE
    /\ lastCall = NoCall
    /\ logAtInit = logFile
    /\ successes = 0
    /\ NoDriver

\* ------------------------------------------- direct calls on the milestone
\* HourlyMilestone::setHoursWorked, called by a driver outside any workflow
SetHoursWorked(hours) ==
    /\ pc = "idle"
    /\ milestone # NullPtr
    /\ milestone.class = "HourlyMilestone"
    /\ LET r == setHoursWorked(milestone, hours)
       IN  /\ milestone' = r.ms
           /\ lastCall' = [op |-> "setHoursWorked", arg |-> hours, ret |-> 0,
                           label |-> "", threw |-> r.threw]
    /\ UNCHANGED <<project, outer, successes, logFile, pc, runVars, completeCalled>>

\* Milestone::complete, called outside any workflow
Complete ==
    /\ pc = "idle"
    /\ milestone # NullPtr
    /\ LET r == complete(milestone)
       IN  /\ milestone' = r.ms
           /\ lastCall' = [op |-> "complete", arg |-> 0, ret |-> 0, label |-> "",
                           threw |-> r.threw]
    /\ completeCalled' = TRUE
    /\ UNCHANGED <<project, outer, successes, logFile, pc, runVars>>

\* Milestone::calculatePayment, called outside any workflow
CalculatePayment ==
    /\ pc = "idle"
    /\ milestone # NullPtr
    /\ lastCall' = [op |-> "calculatePayment", arg |-> 0,
                    ret |-> calculatePayment(milestone), label |-> "",
                    threw |-> NoException]
    /\ UNCHANGED <<project, outer, successes, milestone, logFile, pc, runVars, completeCalled>>

\* Milestone::displayMilestone, Payment::getPaymentType and
\* Payment::processPayment, called outside any workflow; each goes through
\* paymentMethod, and a null paymentMethod is undefined behaviour
DisplayMilestoneCall ==
    /\ pc = "idle"
    /\ milestone # NullPtr
    /\ IF milestone.paymentMethod = NullPtr
       THEN /\ \E o \in {"crashed", "undefined"} : pc' = o /\ outcome' = o
            /\ lastCall' = [op |-> "displayMilestone", arg |-> 0, ret |-> 0,
                            label |-> "", threw |-> NoException]
            /\ UNCHANGED <<paymentAmount, exc, trace, processed, cerr, caught,
                           logAtStart, runs>>
       ELSE /\ lastCall' = [op |-> "displayMilestone", arg |-> 0, ret |-> 0,
                            label |-> getPaymentType(milestone.paymentMethod),
                            threw |-> NoException]
            /\ UNCHANGED <<pc, runVars>>
    /\ UNCHANGED <<project, outer, successes, milestone, logFile, completeCalled>>

GetPaymentTypeCall ==
    /\ pc = "idle"
    /\ milestone # NullPtr
    /\ milestone.paymentMethod # NullPtr
    /\ lastCall' = [op |-> "getPaymentType", arg |-> 0, ret |-> 0,
                    label |-> getPaymentType(milestone.paymentMethod),
                    threw |-> NoException]
    /\ UNCHANGED <<project, outer, successes, milestone, logFile, pc, runVars,
                   completeCalled>>

ProcessPaymentCall ==
    /\ pc = "idle"
    /\ milestone # NullPtr
    /\ milestone.paymentMethod # NullPtr
    /\ milestone' = [milestone EXCEPT
                        !.paymentMethod = processPayment(milestone.paymentMethod)]
    /\ lastCall' = [op |-> "processPayment", arg |-> 0,
                    ret |-> getAmount(milestone.paymentMethod), label |-> "",
                    threw |-> NoException]
    /\ UNCHANGED <<project, outer, successes, logFile, pc, runVars, completeCalled>>

\* ------------------------------------------ Project::executeProjectWorkflow
\* the classes a thrown object can be caught as
BasesOf(e) ==
    IF e \in {InvalidHoursException, NullPointerException, PaymentFailureException}
    THEN {e, RuntimeError, "exception"}
    ELSE {e, "exception"}

\* mutant: the clause names only the program's own exception classes
Catches_OwnClassesOnly(e) ==
    e \in {InvalidHoursException, NullPointerException, PaymentFailureException}

\* catch (const exception& e)
Catches(e) == "exception" \in BasesOf(e)

\* mutant: the milestone is left out of the check
PreconditionFails_NoMilestone == client = NullPtr \/ freelancer = NullPtr

\* if (!client || !freelancer || !milestone)
PreconditionFails ==
    client = NullPtr \/ freelancer = NullPtr \/ milestone = NullPtr

\* mutant: zero is let through
AmountRejected_NegativeOnly(amount) == amount < 0

\* if (paymentAmount <= 0)
AmountRejected(amount) == amount <= 0

\* A null pointer is dereferenced: undefined behaviour.  The run does not
\* continue as written: the process is killed, or anything else happens.
Undefined(stmt) ==
    /\ \E o \in {"crashed", "undefined"} : pc' = o /\ outcome' = o
    /\ trace' = Append(trace, stmt)
    /\ UNCHANGED <<project, outer, successes, milestone, logFile, paymentAmount, exc, processed, cerr,
                   caught, logAtStart, runs, completeCalled, lastCall>>

Throw(stmt, e) ==
    /\ pc' = "catch"
    /\ exc' = e
    /\ trace' = Append(trace, stmt)

\* the call enters the try block
BeginRun ==
    /\ pc = "idle"
    /\ runs < MaxRuns
    /\ pc' = "precondition"
    /\ runs' = runs + 1
    /\ paymentAmount' = 0
    /\ exc' = NoException
    /\ trace' = <<>>
    /\ processed' = <<>>
    /\ cerr' = <<>>
    /\ caught' = 0
    /\ outcome' = "running"
    /\ logAtStart' = logFile
    /\ lastCall' = NoCall
    /\ UNCHANGED <<successes, milestone, logFile, completeCalled>>

\* executeProjectWorkflow() called on a Project that exists
StartWorkflow ==
    /\ BeginRun
    /\ UNCHANGED <<project, outer>>

Precondition ==
    /\ pc = "precondition"
    /\ IF PreconditionFails
       THEN Throw("precondition", NullPointerException)
       ELSE /\ pc' = "displayInfo"
            /\ trace' = Append(trace, "precondition")
            /\ exc' = exc
    /\ UNCHANGED <<project, outer, successes, milestone, logFile, paymentAmount, processed, cerr, caught,
                   outcome, logAtStart, runs, completeCalled, lastCall>>

\* client->displayInfo(); freelancer->displayInfo();
DisplayInfo ==
    /\ pc = "displayInfo"
    /\ IF client = NullPtr \/ freelancer = NullPtr
       THEN Undefined("displayInfo")
       ELSE /\ pc' = "displayMilestone"
            /\ trace' = Append(trace, "displayInfo")
            /\ UNCHANGED <<project, outer, successes, milestone, logFile, paymentAmount, exc, processed,
                           cerr, caught, outcome, logAtStart, runs, completeCalled,
                           lastCall>>

\* milestone->displayMilestone(), which calls paymentMethod->getPaymentType()
DisplayMilestone ==
    /\ pc = "displayMilestone"
    /\ IF milestone = NullPtr \/ milestone.paymentMethod = NullPtr
       THEN Undefined("displayMilestone")
       ELSE /\ pc' = "complete"
            /\ trace' = Append(trace, "displayMilestone")
            /\ UNCHANGED <<project, outer, successes, milestone, logFile, paymentAmount, exc, processed,
                           cerr, caught, outcome, logAtStart, runs, completeCalled,
                           lastCall>>

\* milestone->complete()
CompleteMilestone ==
    /\ pc = "complete"
    /\ IF milestone = NullPtr
       THEN Undefined("complete")
       ELSE LET r == complete(milestone)
            IN  /\ milestone' = r.ms
                /\ completeCalled' = TRUE
                /\ IF r.threw # NoException
                   THEN Throw("complete", r.threw)
                   ELSE /\ pc' = "calculatePayment"
                        /\ trace' = Append(trace, "complete")
                        /\ exc' = exc
                /\ UNCHANGED <<project, outer, successes, logFile, paymentAmount, processed, cerr, caught,
                               outcome, logAtStart, runs, lastCall>>

\* double paymentAmount = milestone->calculatePayment(); if (paymentAmount <= 0) throw
ReadPaymentAmount ==
    /\ pc = "calculatePayment"
    /\ IF milestone = NullPtr
       THEN Undefined("calculatePayment")
       ELSE /\ paymentAmount' = calculatePayment(milestone)
            /\ IF AmountRejected(paymentAmount')
               THEN Throw("calculatePayment", PaymentFailureException)
               ELSE /\ pc' = "processPayment"
                    /\ trace' = Append(trace, "calculatePayment")
                    /\ exc' = exc
            /\ UNCHANGED <<project, outer, successes, milestone, logFile, processed, cerr, caught, outcome,
                           logAtStart, runs, completeCalled, lastCall>>

\* milestone->paymentMethod->processPayment(): a notice naming the Payment's amount
ProcessPayment ==
    /\ pc = "processPayment"
    /\ IF milestone = NullPtr \/ milestone.paymentMethod = NullPtr
       THEN Undefined("processPayment")
       ELSE /\ processed' = Append(processed, Notice(milestone.paymentMethod))
            /\ milestone' = [milestone EXCEPT
                                !.paymentMethod = processPayment(milestone.paymentMethod)]
            /\ pc' = "logPaymentReceipt"
            /\ trace' = Append(trace, "processPayment")
            /\ UNCHANGED <<project, outer, successes, logFile, paymentAmount, exc, cerr, caught,
                           outcome, logAtStart, runs, completeCalled, lastCall>>

\* logger->logPaymentReceipt(milestone->getTitle(), paymentAmount,
\*                           milestone->paymentMethod->getPaymentType())
\* The file is opened in append mode; whether it opens is the environment's choice.
LogPaymentReceipt ==
    /\ pc = "logPaymentReceipt"
    /\ IF milestone = NullPtr \/ milestone.paymentMethod = NullPtr \/ logger = NullPtr
       THEN Undefined("logPaymentReceipt")
       ELSE /\ \E opened \in BOOLEAN :
                 IF opened
                 THEN /\ logFile' = WriteReceipt(logFile,
                                            Receipt(getTitle(milestone), paymentAmount,
                                                    getPaymentType(milestone.paymentMethod)))
                      /\ pc' = "banner"
                      /\ trace' = Append(trace, "logPaymentReceipt")
                      /\ exc' = exc
                 ELSE /\ Throw("logPaymentReceipt", RuntimeError)
                      /\ logFile' = logFile
            /\ UNCHANGED <<project, outer, successes, milestone, paymentAmount, processed, cerr, caught,
                           outcome, logAtStart, runs, completeCalled, lastCall>>

\* "=== PROJECT WORKFLOW COMPLETED SUCCESSFULLY ===", then the call returns
Banner ==
    /\ pc = "banner"
    /\ pc' = "idle"
    /\ outcome' = "success"
    /\ trace' = Append(trace, "banner")
    /\ successes' = successes + 1
    /\ UNCHANGED <<project, outer, milestone, logFile, paymentAmount, exc, processed, cerr,
                   caught, logAtStart, runs, completeCalled, lastCall>>

\* catch (const exception& e) { cerr << ... << e.what(); }, then the call returns;
\* an exception the clause does not match leaves the call
Catch ==
    /\ pc = "catch"
    /\ IF Catches(exc)
       THEN /\ cerr' = Append(cerr, What(exc))
            /\ caught' = caught + 1
            /\ outcome' = exc
            /\ pc' = "idle"
       ELSE /\ pc' = "escaped"
            /\ outcome' = "escaped"
            /\ UNCHANGED <<cerr, caught>>
    /\ exc' = NoException
    /\ trace' = Append(trace, "catch")
    /\ UNCHANGED <<project, outer, successes, milestone, logFile, paymentAmount, processed, logAtStart,
                   runs, completeCalled, lastCall>>

Next ==
    \/ \E hours \in HourArgs : SetHoursWorked(hours)
    \/ Complete
    \/ CalculatePayment
    \/ DisplayMilestoneCall
    \/ GetPaymentTypeCall
    \/ ProcessPaymentCall
    \/ StartWorkflow
    \/ Precondition
    \/ DisplayInfo
    \/ DisplayMilestone
    \/ CompleteMilestone
    \/ ReadPaymentAmount
    \/ ProcessPayment
    \/ LogPaymentReceipt
    \/ Banner
    \/ Catch

Spec == Init /\ [][Next]_vars

\* ----------------------------------------------------------------- drivers
\* main(), runCustomProject() and runHardcodedDemos(): they allocate the
\* entities, build the Project, run the workflow once and delete the Project.
DemoRate == 50
DemoBadHours == 0 - 5

\* the pointer variables of the second demo, by the entity they hold
Demo2Ids == [client |-> "client3", freelancer |-> "freelancer3", payment |-> "payment3",
             milestone |-> "milestone3", logger |-> "logger3", project |-> "project3"]

Obj(kind) == IF input.mode = "demo2" THEN Demo2Ids[kind] ELSE kind

\* payChoice == 1 ? new Escrow(amt) : new Direct(amt)
MakePayment(payChoice, amt) == IF payChoice = 1 THEN Escrow(amt) ELSE Direct(amt)

\* delete on one object
Delete(h, o) ==
    [h EXCEPT ![o] = IF @ = "live" THEN "deleted"
                     ELSE IF @ = "deleted" THEN "deletedTwice" ELSE @]

\* what the destructor of o deletes: a Project its client, freelancer,
\* milestone and logger, a Milestone its paymentMethod
Owned(own, o) == {x \in ObjectIds : own[x] = o}
Destroyed(own, o) ==
    {o} \cup Owned(own, o) \cup UNION {Owned(own, x) : x \in Owned(own, o)}

DeleteAll(h, own, roots) ==
    LET gone == UNION {Destroyed(own, o) : o \in roots}
    IN  [o \in ObjectIds |-> IF o \in gone THEN Delete(h, o)[o] ELSE h[o]]

DriverInit ==
    /\ client = NullPtr
    /\ freelancer = NullPtr
    /\ milestone = NullPtr
    /\ logger = NullPtr
    /\ logFile \in {<<>>, <<PriorReceipt>>}
    /\ pc = "idle"
    /\ paymentAmount = 0
    /\ exc = NoException
    /\ trace = <<>>
    /\ processed = <<>>
    /\ cerr = <<>>
    /\ caught = 0
    /\ outcome = "none"
    /\ logAtStart = logFile
    /\ runs = 0
    /\ completeCalled = FALSE
    /\ lastCall = NoCall
    /\ logAtInit = logFile
    /\ successes = 0
    /\ dpc = "main"
    /\ input = NoInput
    /\ heap = [o \in ObjectIds |-> "none"]
    /\ owner = [o \in ObjectIds |-> "nobody"]
    /\ locals = NoLocals
    /\ hm = NullPtr
    /\ logAtSetup = <<>>

workflowVars == <<milestone, logFile, pc, runVars, completeCalled, lastCall, successes>>

\* main: cin >> choice
Main ==
    /\ dpc = "main"
    /\ \E choice \in {1, 2} :
          IF choice = 1
          THEN /\ dpc' = "readInput"
               /\ input' = [input EXCEPT !.mode = "custom"]
          ELSE /\ dpc' = "demoLogger"
               /\ input' = [input EXCEPT !.mode = "demo1"]
    /\ UNCHANGED <<project, workflowVars, logAtInit, heap, owner, locals, hm, logAtSetup>>

\* runCustomProject: the prompts up to the payment selection
ReadInput ==
    /\ dpc = "readInput"
    /\ \E fRate \in Rates, typeChoice \in {1, 2}, payChoice \in {1, 2} :
          input' = [input EXCEPT !.fRate = fRate, !.typeChoice = typeChoice,
                                 !.payChoice = payChoice]
    /\ dpc' = "newUsers"
    /\ UNCHANGED <<project, workflowVars, logAtInit, heap, owner, locals, hm, logAtSetup>>

\* new Client, new Freelancer; payment = nullptr; milestone = nullptr
NewUsers ==
    /\ dpc = "newUsers"
    /\ heap' = [heap EXCEPT !["client"] = "live", !["freelancer"] = "live"]
    /\ owner' = [owner EXCEPT !["client"] = "driver", !["freelancer"] = "driver"]
    /\ locals' = NoLocals
    /\ dpc' = "setupPayment"
    /\ UNCHANGED <<project, workflowVars, logAtInit, input, hm, logAtSetup>>

\* 1. Setup Payment: payment = new Escrow(0) or new Direct(0)
SetupPayment ==
    /\ dpc = "setupPayment"
    /\ heap' = [heap EXCEPT !["payment0"] = "live"]
    /\ owner' = [owner EXCEPT !["payment0"] = "driver"]
    /\ locals' = [locals EXCEPT !.payment = "payment0"]
    /\ dpc' = IF input.typeChoice = 1 THEN "fixedBranch" ELSE "hourlyBranch"
    /\ UNCHANGED <<project, workflowVars, logAtInit, input, hm, logAtSetup>>

\* typeChoice == 1: the first payment is deleted, a payment of mAmount and
\* the FixedPriceMilestone that owns it are created
FixedBranch ==
    /\ dpc = "fixedBranch"
    /\ \E mAmount \in FixedAmounts :
          /\ input' = [input EXCEPT !.mAmount = mAmount]
          /\ hm' = FixedPriceMilestone("Website", DescriptionOf("Website"),
                                       MakePayment(input.payChoice, mAmount), mAmount)
    /\ heap' = [Delete(heap, locals.payment) EXCEPT !["payment"] = "live",
                                                    !["milestone"] = "live"]
    /\ owner' = [owner EXCEPT !["payment"] = "milestone", !["milestone"] = "driver"]
    /\ locals' = [locals EXCEPT !.payment = "payment", !.milestone = "milestone"]
    /\ dpc' = "newProject"
    /\ UNCHANGED <<project, workflowVars, logAtInit, logAtSetup>>

\* else: payment is assigned a second new payment of 0 while it still holds
\* the first one; the HourlyMilestone owns the second
HourlyBranch ==
    /\ dpc = "hourlyBranch"
    /\ \E hours \in HourArgs : input' = [input EXCEPT !.hours = hours]
    /\ hm' = HourlyMilestone("Website", DescriptionOf("Website"),
                             MakePayment(input.payChoice, 0), input.fRate)
    /\ heap' = [heap EXCEPT !["payment"] = "live", !["milestone"] = "live"]
    /\ owner' = [owner EXCEPT ![locals.payment] = "nobody",
                              !["payment"] = "milestone", !["milestone"] = "driver"]
    /\ locals' = [locals EXCEPT !.payment = "payment"]
    /\ dpc' = "setHours"
    /\ UNCHANGED <<project, workflowVars, logAtInit, logAtSetup>>

\* hm->setHoursWorked(hours); milestone = hm   (badMilestone->setHoursWorked(-5.0))
SetHours ==
    /\ dpc = "setHours"
    /\ logAtSetup' = logFile
    /\ LET r == setHoursWorked(hm, input.hours)
       IN  /\ hm' = r.ms
           /\ IF r.threw # NoException
              THEN /\ dpc' = "catchSetup"
                   /\ locals' = locals
              ELSE /\ dpc' = "newProject"
                   /\ locals' = [locals EXCEPT !.milestone = Obj("milestone")]
    /\ UNCHANGED <<project, workflowVars, logAtInit, input, heap, owner>>

\* catch (...) { delete client; delete freelancer; delete hm; return; }
\* catch (const InvalidHoursException&) { if (project3 == nullptr) { ... } }
CatchSetup ==
    /\ dpc = "catchSetup"
    /\ heap' = IF input.mode = "custom" \/ locals.project = "nullptr"
               THEN DeleteAll(heap, owner,
                              {Obj("client"), Obj("freelancer"), Obj("milestone")})
               ELSE heap
    /\ dpc' = "returned"
    /\ UNCHANGED <<project, workflowVars, logAtInit, input, owner, locals, hm, logAtSetup>>

\* new Project(name, client, freelancer, milestone, logger)
NewProject ==
    /\ dpc = "newProject"
    /\ heap' = [heap EXCEPT ![Obj("logger")] = "live", ![Obj("project")] = "live"]
    /\ owner' = [owner EXCEPT ![Obj("client")] = Obj("project"),
                              ![Obj("freelancer")] = Obj("project"),
                              ![Obj("milestone")] = Obj("project"),
                              ![Obj("logger")] = Obj("project"),
                              ![Obj("project")] = "driver"]
    /\ locals' = [locals EXCEPT !.project = Obj("project")]
    /\ client' = Client
    /\ freelancer' = Freelancer
    /\ milestone' = hm
    /\ logger' = Logger(LogFileName)
    /\ dpc' = "execute"
    /\ UNCHANGED <<logFile, pc, runVars, completeCalled, lastCall, successes,
                   logAtInit, input, hm, logAtSetup>>

\* project->executeProjectWorkflow()
Execute ==
    /\ dpc = "execute"
    /\ BeginRun
    /\ dpc' = "running"
    /\ UNCHANGED <<project, logAtInit, input, heap, owner, locals, hm, logAtSetup>>

\* delete project
DeleteProject ==
    /\ dpc = "running"
    /\ pc = "idle"
    /\ heap' = DeleteAll(heap, owner, {locals.project})
    /\ dpc' = IF input.mode = "demo1" THEN "demo2" ELSE "returned"
    /\ UNCHANGED <<project, workflowVars, logAtInit, input, owner, locals, hm, logAtSetup>>

\* runHardcodedDemos: Logger* logger = new Logger("payment_receipts.txt")
DemoLogger ==
    /\ dpc = "demoLogger"
    /\ heap' = [heap EXCEPT !["logger"] = "live"]
    /\ owner' = [owner EXCEPT !["logger"] = "driver"]
    /\ dpc' = "demo1"
    /\ UNCHANGED <<project, workflowVars, logAtInit, input, locals, hm, logAtSetup>>

\* Demo 1: client1, freelancer1, escrowPayment, fixedMilestone
Demo1Setup ==
    /\ dpc = "demo1"
    /\ heap' = [heap EXCEPT !["client"] = "live", !["freelancer"] = "live",
                            !["payment"] = "live", !["milestone"] = "live"]
    /\ owner' = [owner EXCEPT !["client"] = "driver", !["freelancer"] = "driver",
                              !["payment"] = "milestone", !["milestone"] = "driver"]
    /\ locals' = [locals EXCEPT !.payment = "payment", !.milestone = "milestone"]
    /\ hm' = FixedPriceMilestone("Website", DescriptionOf("Website"),
                                 Escrow(DemoAmount), DemoAmount)
    /\ dpc' = "newProject"
    /\ UNCHANGED <<project, workflowVars, logAtInit, input, logAtSetup>>

\* Demo 2: client3, freelancer3, badMilestone with new Direct(0.0)
Demo2Setup ==
    /\ dpc = "demo2"
    /\ input' = [input EXCEPT !.mode = "demo2", !.hours = DemoBadHours,
                              !.fRate = DemoRate]
    /\ heap' = [heap EXCEPT !["client3"] = "live", !["freelancer3"] = "live",
                            !["payment3"] = "live", !["milestone3"] = "live"]
    /\ owner' = [owner EXCEPT !["client3"] = "driver", !["freelancer3"] = "driver",
                              !["payment3"] = "milestone3", !["milestone3"] = "driver"]
    /\ locals' = [payment |-> "payment3", milestone |-> "milestone3",
                  project |-> "nullptr"]
    /\ hm' = HourlyMilestone("Test Milestone", DescriptionOf("Test Milestone"),
                             Direct(0), DemoRate)
    /\ dpc' = "setHours"
    /\ UNCHANGED <<project, workflowVars, logAtInit, logAtSetup>>

DriverNext ==
    \/ Main
    \/ ReadInput
    \/ NewUsers
    \/ SetupPayment
    \/ FixedBranch
    \/ HourlyBranch
    \/ SetHours
    \/ CatchSetup
    \/ NewProject
    \/ Execute
    \/ DeleteProject
    \/ DemoLogger
    \/ Demo1Setup
    \/ Demo2Setup
    \/ Precondition
    \/ DisplayInfo
    \/ DisplayMilestone
    \/ CompleteMilestone
    \/ ReadPaymentAmount
    \/ ProcessPayment
    \/ LogPaymentReceipt
    \/ Banner
    \/ Catch

DriverSpec == DriverInit /\ [][DriverNext]_vars


\* ------------------------------------------------------------ shorthands
InTrace(stmt) == \E i \in 1 .. Len(trace) : trace[i] = stmt
IsFixed == milestone # NullPtr /\ milestone.class = "FixedPriceMilestone"
IsHourly == milestone # NullPtr /\ milestone.class = "HourlyMilestone"
\* the run has returned to its caller and nothing was called since
JustReturned == pc = "idle" /\ runs > 0 /\ lastCall = NoCall
\* this step is a direct call of the named method on the milestone
DirectCall(op) == pc = "idle" /\ pc' = "idle" /\ lastCall'.op = op

\* ------------------------------------------------------------------ claims

\* C1: for both milestone variants, in every state reachable by
\* setHoursWorked(), complete() and calculatePayment() calls (and workflow
\* runs), calculatePayment() returns 0 whenever the completed flag is false.
C1_ZeroWhilePending ==
    /\ (milestone # NullPtr /\ ~milestone.isCompleted)
          => calculatePayment(milestone) = 0
    /\ (milestone # NullPtr /\ ~milestone.isCompleted /\ lastCall.op = "calculatePayment")
          => lastCall.ret = 0

\* C1 witness: an hourly milestone with positive hours and rate, not yet
\* completed, on which calculatePayment() has just returned 0.
C1_Witness ==
    /\ IsHourly
    /\ ~milestone.isCompleted
    /\ milestone.hoursWorked > 0
    /\ milestone.hourlyRate > 0
    /\ lastCall.op = "calculatePayment"
    /\ lastCall.ret = 0

\* C2: with an absent client, freelancer or milestone a run never gets past
\* the precondition check: no processPayment, no logPaymentReceipt, the log
\* is as it was, and the run returns with NullPointerException reported.
C2_AbsentNeverPays ==
    (client = NullPtr \/ freelancer = NullPtr \/ milestone = NullPtr)
    => /\ pc \notin {"displayInfo", "displayMilestone", "complete", "calculatePayment",
                    "processPayment", "logPaymentReceipt", "banner"}
       /\ \A i \in 1 .. Len(trace) : trace[i] \in {"precondition", "catch"}
       /\ ~InTrace("processPayment")
       /\ ~InTrace("logPaymentReceipt")
       /\ processed = <<>>
       /\ logFile = logAtStart
       /\ pc = "catch" => exc = NullPointerException
       /\ (pc = "idle" /\ runs > 0)
             => /\ outcome = NullPointerException
                /\ cerr = <<What(NullPointerException)>>

\* C2 witness: a run on a project whose milestone alone is absent has returned.
C2_Witness ==
    /\ client # NullPtr
    /\ freelancer # NullPtr
    /\ milestone = NullPtr
    /\ JustReturned
    /\ outcome = NullPointerException

\* C3: when the amount read after complete() is <= 0, the run calls neither
\* processPayment nor logPaymentReceipt, appends nothing, and ends with
\* PaymentFailureException reported.
C3_NonPositiveNeverPays ==
    (InTrace("calculatePayment") /\ paymentAmount <= 0)
    => /\ pc \in {"catch", "idle"}
       /\ ~InTrace("processPayment")
       /\ ~InTrace("logPaymentReceipt")
       /\ processed = <<>>
       /\ logFile = logAtStart
       /\ pc = "catch" => exc = PaymentFailureException
       /\ pc = "idle" => /\ outcome = PaymentFailureException
                         /\ cerr = <<What(PaymentFailureException)>>

\* C3 witness: a run on an hourly milestone with positive hours and a
\* non-positive rate has returned after reading its amount.
C3_Witness ==
    /\ IsHourly
    /\ milestone.hoursWorked > 0
    /\ milestone.hourlyRate <= 0
    /\ milestone.isCompleted
    /\ JustReturned
    /\ InTrace("calculatePayment")
    /\ paymentAmount = calculatePayment(milestone)
    /\ outcome = PaymentFailureException

\* C4: none of the four failure kinds leaves executeProjectWorkflow(): each
\* is delivered to the catch clause, caught once and reported, and the call
\* returns to its caller.
C4_NoFailureEscapes ==
    /\ pc # "escaped"
    /\ pc = "catch"
          => /\ exc \in {InvalidHoursException, NullPointerException,
                         PaymentFailureException, RuntimeError}
             /\ caught = 0
    /\ (pc = "idle" /\ runs > 0)
          => \/ outcome = "success" /\ caught = 0 /\ cerr = <<>>
             \/ /\ outcome \in {InvalidHoursException, NullPointerException,
                                PaymentFailureException, RuntimeError}
                /\ caught = 1
                /\ cerr = <<What(outcome)>>
                /\ trace[Len(trace)] = "catch"

\* C4 witness: the logger could not open the file, and the run has returned
\* with that failure caught once.
C4_Witness ==
    /\ JustReturned
    /\ outcome = RuntimeError
    /\ caught = 1
    /\ InTrace("processPayment")

\* C5: setHoursWorked(h) with h < 0 throws InvalidHoursException and leaves
\* the milestone (hoursWorked, completed flag) as it was, in any state.
C5_NegativeHoursRejected ==
    [][(DirectCall("setHoursWorked") /\ lastCall'.arg < 0)
          => /\ lastCall'.threw = InvalidHoursException
             /\ milestone'.hoursWorked = milestone.hoursWorked
             /\ milestone'.isCompleted = milestone.isCompleted
             /\ milestone' = milestone]_vars

\* C5 witness: a negative value was rejected on a completed milestone that
\* holds positive hours.
C5_Witness ==
    /\ IsHourly
    /\ lastCall.op = "setHoursWorked"
    /\ lastCall.arg < 0
    /\ lastCall.threw = InvalidHoursException
    /\ milestone.hoursWorked > 0
    /\ milestone.isCompleted

\* C6: complete() on an hourly milestone whose hoursWorked is 0 throws
\* InvalidHoursException, the milestone is Pending afterwards and
\* calculatePayment() returns 0.
C6_ZeroHoursStaysPending ==
    (IsHourly /\ lastCall.op = "complete" /\ milestone.hoursWorked = 0)
    => /\ lastCall.threw = InvalidHoursException
       /\ ~milestone.isCompleted
       /\ calculatePayment(milestone) = 0

\* C7: complete() on an hourly milestone with hoursWorked = h > 0 and rate r
\* succeeds, and calculatePayment() is then h * r; the workflow reads that
\* amount.
C7_HourlyAmount ==
    /\ (IsHourly /\ lastCall.op = "complete" /\ milestone.hoursWorked > 0)
          => /\ lastCall.threw = NoException
             /\ milestone.isCompleted
             /\ calculatePayment(milestone) = milestone.hoursWorked * milestone.hourlyRate
    /\ (IsHourly /\ pc = "calculatePayment" /\ milestone.hoursWorked > 0)
          => /\ milestone.isCompleted
             /\ calculatePayment(milestone) = milestone.hoursWorked * milestone.hourlyRate
    /\ (IsHourly /\ pc = "processPayment")
          => paymentAmount = milestone.hoursWorked * milestone.hourlyRate

\* C7 witness: complete() has just succeeded on an hourly milestone with
\* hours 2 and a rate other than 1 (so that h * r differs from h and from r).
C7_Witness ==
    /\ IsHourly
    /\ lastCall.op = "complete"
    /\ lastCall.threw = NoException
    /\ milestone.hoursWorked = MaxHours
    /\ milestone.hourlyRate = MaxRate
    /\ calculatePayment(milestone) = MaxHours * MaxRate

\* C8: a fixed-price milestone with amount A > 0 owes 0 until complete() is
\* called and A afterwards, and complete() never fails on it.
C8_FixedAmount ==
    /\ (IsFixed /\ milestone.fixedAmount > 0)
          => /\ calculatePayment(milestone)
                   = IF completeCalled THEN milestone.fixedAmount ELSE 0
             /\ lastCall.op = "calculatePayment"
                   => lastCall.ret = IF completeCalled THEN milestone.fixedAmount ELSE 0
    /\ IsFixed
          => /\ lastCall.op = "complete" => lastCall.threw = NoException
             /\ completeCalled => milestone.isCompleted
             /\ exc # InvalidHoursException
             /\ outcome # InvalidHoursException

\* C8 witness: calculatePayment() returned A on a completed fixed-price
\* milestone with A = 2500.
C8_Witness ==
    /\ IsFixed
    /\ milestone.fixedAmount = DemoAmount
    /\ completeCalled
    /\ lastCall.op = "calculatePayment"
    /\ lastCall.ret = DemoAmount

\* C9: complete() on an already completed fixed-price milestone is not
\* rejected and changes nothing: the milestone stays Completed and
\* calculatePayment() is still A.
C9_FixedCompleteIdempotent ==
    [][/\ (DirectCall("complete") /\ IsFixed /\ milestone.isCompleted)
             => /\ lastCall'.threw = NoException
                /\ milestone' = milestone
                /\ milestone'.isCompleted
                /\ calculatePayment(milestone') = milestone.fixedAmount
       /\ (pc = "complete" /\ pc' # "complete" /\ IsFixed /\ milestone.isCompleted)
             => /\ pc' = "calculatePayment"
                /\ milestone' = milestone
                /\ calculatePayment(milestone') = milestone.fixedAmount]_vars

\* C9 witness: a successful run completed the fixed-price milestone, and
\* complete() was then called on it again.
C9_Witness ==
    /\ IsFixed
    /\ runs = 1
    /\ outcome = "success"
    /\ pc = "idle"
    /\ lastCall.op = "complete"
    /\ lastCall.threw = NoException
    /\ milestone.isCompleted
    /\ calculatePayment(milestone) = milestone.fixedAmount

\* C10: when a run completes successfully, exactly one receipt has been
\* appended, and it records the milestone's title, an amount equal to
\* calculatePayment() after completion (> 0) and the type label of the
\* milestone's payment; Escrow(2500) with a fixed amount of 2500 gives a
\* receipt with amount 2500 and type "Escrow".
C10_ReceiptRecordsRun ==
    (JustReturned /\ outcome = "success")
    => /\ Len(logFile) = Len(logAtStart) + 1
       /\ SubSeq(logFile, 1, Len(logAtStart)) = logAtStart
       /\ LET r == logFile[Len(logFile)]
          IN  /\ r.milestone = milestone.title
              /\ r.amount = calculatePayment(milestone)
              /\ r.amount > 0
              /\ r.paymentType = (IF milestone.paymentMethod.class = "Escrow"
                                  THEN "Escrow" ELSE "Direct")
              /\ (IsFixed /\ milestone.fixedAmount = 2500
                    /\ milestone.paymentMethod = Escrow(2500))
                    => (r.amount = 2500 /\ r.paymentType = "Escrow")

\* the statements of the try block, in program order
Statements ==
    <<"precondition", "displayInfo", "displayMilestone", "complete",
      "calculatePayment", "processPayment", "logPaymentReceipt", "banner">>

IsPrefix(a, b) == Len(a) <= Len(b) /\ SubSeq(b, 1, Len(a)) = a

\* C12: the statements of a run execute in program order, each only after
\* the previous one succeeded: processPayment only after complete()
\* succeeded and the amount was > 0, logPaymentReceipt only after
\* processPayment, the banner only after the receipt was written; after a
\* failure only the catch clause runs.
C12_StepsInOrder ==
    LET n == Len(trace)
        body == IF n > 0 /\ trace[n] = "catch" THEN SubSeq(trace, 1, n - 1) ELSE trace
    IN  /\ IsPrefix(body, Statements)
        /\ InTrace("processPayment")
              => /\ milestone.isCompleted
                 /\ paymentAmount > 0
                 /\ Len(processed) = 1
        /\ ~InTrace("processPayment") => processed = <<>>
        /\ InTrace("banner")
              => /\ ~InTrace("catch")
                 /\ Len(logFile) = Len(logAtStart) + 1
                 /\ outcome = "success"
        /\ ~InTrace("logPaymentReceipt") => logFile = logAtStart
        /\ exc # NoException <=> pc = "catch"
        /\ (InTrace("catch") /\ lastCall = NoCall)
              => (pc \in {"idle", "escaped"} /\ outcome # "success")

\* C12 witness: a run that executed every statement and returned.
C12_Witness ==
    /\ JustReturned
    /\ trace = Statements
    /\ outcome = "success"

\* C13: once a milestone is Completed, no call of complete(),
\* setHoursWorked(), calculatePayment(), displayMilestone() or
\* executeProjectWorkflow() makes it Pending again.
C13_CompletedStaysCompleted ==
    [][(milestone # NullPtr /\ milestone.isCompleted)
          => (milestone' # NullPtr /\ milestone'.isCompleted)]_vars

\* C13 witness: complete() failed on a completed hourly milestone whose
\* hours had been set back to 0, and the milestone is still Completed.
C13_Witness ==
    /\ IsHourly
    /\ milestone.isCompleted
    /\ milestone.hoursWorked = 0
    /\ lastCall.op = "complete"
    /\ lastCall.threw = InvalidHoursException

\* C14: a run that aborts at the amount check or at logging leaves the
\* milestone Completed; when logging failed, processPayment has run and no
\* receipt was written.
C14_NoRollback ==
    /\ outcome = PaymentFailureException
          => /\ milestone.isCompleted
             /\ processed = <<>>
             /\ logFile = logAtStart
    /\ outcome = RuntimeError
          => /\ milestone.isCompleted
             /\ InTrace("processPayment")
             /\ Len(processed) = 1
             /\ logFile = logAtStart

\* C14 witness: the run on a fixed-price milestone with amount 0 has
\* returned with PaymentFailureException, the milestone Completed.
C14_Witness ==
    /\ IsFixed
    /\ milestone.fixedAmount = 0
    /\ JustReturned
    /\ outcome = PaymentFailureException
    /\ milestone.isCompleted

\* C16: the receipt log only grows by appending: its content before any
\* step is a prefix of its content after, a run appends exactly one receipt
\* if it succeeds and none if it fails at any step, and the number of
\* receipts added since the program started is the number of successful runs.
C16_LogAppendOnly ==
    [][/\ IsPrefix(logFile, logFile')
       /\ pc' = "idle" => Len(logFile') = Len(logAtInit') + successes'
       /\ (pc # "idle" /\ pc' = "idle")
             => Len(logFile') = Len(logAtStart')
                                  + (IF outcome' = "success" THEN 1 ELSE 0)
       /\ (pc # "idle" /\ pc' \in {"crashed", "undefined", "escaped"})
             => logFile' = logAtStart']_vars

\* C16 witness: two runs on a file that already held a receipt, the first
\* successful, the second failed at logging: one receipt was added.
C16_Witness ==
    /\ logAtInit = <<PriorReceipt>>
    /\ runs = 2
    /\ successes = 1
    /\ pc = "idle"
    /\ outcome = RuntimeError
    /\ Len(logFile) = 2
    /\ logFile[1] = PriorReceipt

\* C18: once an hourly milestone is Completed no operation changes
\* hoursWorked, so its amount owed stays the h * r it had at completion.
C18_HoursFrozenOnceCompleted ==
    [][(IsHourly /\ milestone.isCompleted)
          => /\ milestone'.hoursWorked = milestone.hoursWorked
             /\ calculatePayment(milestone') = calculatePayment(milestone)]_vars

\* C19: calculatePayment(), displayMilestone(), getPaymentType() and
\* processPayment() leave the milestone and its Payment as they were, called
\* directly or by the workflow; no operation at all changes the Payment.
C19_QueriesChangeNothing ==
    [][/\ (\/ DirectCall("calculatePayment")
           \/ DirectCall("displayMilestone")
           \/ DirectCall("getPaymentType")
           \/ DirectCall("processPayment"))
             => milestone' = milestone
       /\ pc \in {"displayMilestone", "calculatePayment", "processPayment"}
             => milestone' = milestone
       /\ milestone # NullPtr
             => /\ milestone' # NullPtr
                /\ milestone'.paymentMethod = milestone.paymentMethod]_vars

\* C19 witness: processPayment() ran in a successful run and was then
\* called directly; the Payment still holds the amount it was built with.
C19_Witness ==
    /\ IsFixed
    /\ runs = 1
    /\ outcome = "success"
    /\ lastCall.op = "processPayment"
    /\ lastCall.ret = DemoAmount
    /\ milestone.paymentMethod = Escrow(DemoAmount)
    /\ processed = <<Notice(Escrow(DemoAmount))>>

\* C20: a run never reaches a statement that goes through an absent
\* payment or an absent logger, and ends in success or in a failure
\* reported by the catch clause.
C20_OnlyPresentDereferenced ==
    /\ pc \in {"displayMilestone", "processPayment", "logPaymentReceipt"}
          => milestone.paymentMethod # NullPtr
    /\ pc = "logPaymentReceipt" => logger # NullPtr
    /\ (trace # <<>> /\ lastCall = NoCall) => pc \notin {"crashed", "undefined"}

\* C11: when the hours given at the setup of an hourly milestone (demo 2,
\* or the custom-input path) are negative, setHoursWorked() raises and the
\* driver goes to its catch clause: no Project is built for that milestone,
\* no workflow run is started on it, the milestone is Pending with its
\* hours unset, and the log is as it was before the call.
C11_RejectedSetupBuildsNothing ==
    (input.hours < 0 /\ dpc # "setHours")
       => /\ dpc \in {"catchSetup", "returned"}
          /\ heap[Obj("project")] = "none"
          /\ locals.project = "nullptr"
          /\ milestone # hm
          /\ pc = "idle"
          /\ runs = (IF input.mode = "demo2" THEN 1 ELSE 0)
          /\ ~hm.isCompleted
          /\ hm.hoursWorked = 0
          /\ logFile = logAtSetup

\* C11 witness: the second demo has returned through its catch clause after
\* setHoursWorked(-5) on the Test Milestone.
C11_Witness ==
    /\ input.mode = "demo2"
    /\ input.hours = DemoBadHours
    /\ dpc = "returned"
    /\ hm.title = "Test Milestone"
    /\ heap["milestone3"] = "deleted"
    /\ heap["project3"] = "none"

\* C15: in every successful run started by a driver, the amount of the
\* Payment that processPayment() reports is the amount calculatePayment()
\* returned, which is the amount of the receipt.
C15_PaymentCarriesAmount ==
    (dpc # "none" /\ outcome = "success")
       => /\ processed[1].amount = paymentAmount
          /\ logFile[Len(logFile)].amount = FormatAmount(paymentAmount)

\* C17: every object a driver allocated is held by exactly one owner while
\* it lives, is never deleted twice, is live whenever it is used, and is
\* deleted when the driver has returned.
C17_OwnedAndFreedOnce ==
    /\ \A o \in ObjectIds :
          /\ heap[o] # "deletedTwice"
          /\ heap[o] = "live" => owner[o] # "nobody"
          /\ dpc = "returned" => heap[o] \in {"none", "deleted"}
    /\ dpc = "setHours" => heap[Obj("milestone")] = "live"
    /\ (dpc = "running" /\ pc # "idle")
          => \A o \in Destroyed(owner, locals.project) : heap[o] = "live"
====
